---- MODULE Spec2Model ----
(***************************************************************************)
(* Model of the result-assertion macros of src/assertions.rs:              *)
(* kernel_error_eq, kernel_error_has_message, kernel_error_starts_with,    *)
(* kernel_error_contains, is_ok and is_error.                              *)
(*                                                                         *)
(* A test evaluates one Result expression and one expected triple and      *)
(* hands them to the macros.  Each macro either falls through (the test    *)
(* goes on), yields a value, or panics with a formatted diagnostic.  The    *)
(* state records, per macro, what the invocation did: its outcome, the     *)
(* panic diagnostic (which check raised it and the values interpolated     *)
(* next to "Expected" and "Actual" in the format string), the value the    *)
(* macro expression evaluated to, and the checks it evaluated, in order.   *)
(***************************************************************************)
EXTENDS Integers, Sequences, FiniteSets

\* ---------------------------------------------------------------- bounds
\* Longest message / phrase, in characters.
MaxLen == 2

\* ------------------------------------------------------------- data model
\* The characters messages are made of.
Chars == {"a", "b"}

\* nape_kernel::error::Kind, a closed enumeration.
Kinds == {"Validation", "NotFound"}

\* nape_kernel::error::Audience, a closed enumeration.
Audiences == {"User", "System"}

\* The payloads of Ok(val).
Values == {"v0", "v1"}

\* All strings of at most MaxLen characters.
Strings == UNION {[1..n -> Chars] : n \in 0..MaxLen}

\* nape_kernel::error::Error as the macros read it: e.kind, e.audience,
\* e.message.
Errors == [kind : Kinds, audience : Audiences, message : Strings]

\* Result<T, Error>: Ok(val) or Err(e).
Ok(val) == [tag |-> "Ok", val |-> val]

Err(e) == [tag |-> "Err", e |-> e]

Results == {Ok(v) : v \in Values} \cup {Err(e) : e \in Errors}

\* The six macros.
Ops == {"kernel_error_eq", "kernel_error_has_message",
        "kernel_error_starts_with", "kernel_error_contains",
        "is_ok", "is_error"}

\* The four macros that check an error's kind, audience and message.
ErrorOps == {"kernel_error_eq", "kernel_error_has_message",
             "kernel_error_starts_with", "kernel_error_contains"}

\* ------------------------------------------------------- string predicates
\* p occurs in s starting at byte offset off (0-based).
Occurs(s, p, off) ==
    /\ off + Len(p) <= Len(s)
    /\ \A i \in 1..Len(p) : s[off + i] = p[i]

\* A starts_with that rejects the empty pattern.
StartsWithNonEmpty(s, p) ==
    /\ Len(p) > 0
    /\ Len(p) <= Len(s)
    /\ SubSeq(s, 1, Len(p)) = p

\* A starts_with that compares the tail instead of the head.
StartsWithTail(s, p) ==
    /\ Len(p) <= Len(s)
    /\ SubSeq(s, Len(s) - Len(p) + 1, Len(s)) = p

\* str::starts_with(&str): the pattern is no longer than the string and
\* equals its leading Len(p) bytes.
StartsWith(s, p) ==
    /\ Len(p) <= Len(s)
    /\ SubSeq(s, 1, Len(p)) = p

\* A contains whose search skips offset 0.
ContainsFromOne(s, p) ==
    \E off \in 1..(Len(s) - Len(p)) : SubSeq(s, off + 1, off + Len(p)) = p

\* A contains that gives up on a needle as long as the haystack.
ContainsShorter(s, p) ==
    \E off \in 0..(Len(s) - Len(p) - 1) : SubSeq(s, off + 1, off + Len(p)) = p

\* str::contains(&str): some window of the string equals the pattern.
Contains(s, p) ==
    \E off \in 0..(Len(s) - Len(p)) : SubSeq(s, off + 1, off + Len(p)) = p

\* ------------------------------------------------------ macro invocations
\* What an invocation that has not happened looks like.
NoDiag == [check |-> "none", text |-> "none", expected |-> {}, actual |-> {}]

\* The macro ran to its end without panicking; it evaluates to value (a set
\* of at most one element: empty for the unit value of the assertions).
Pass(reached, value) ==
    [outcome |-> "pass", reached |-> reached, ret |-> value, diag |-> NoDiag]

\* panic!/assert_eq! failure raised by the last check of reached, with the
\* format string text and the values interpolated as expected and as actual.
Panic(reached, text, expected, actual) ==
    [outcome |-> "panic", reached |-> reached, ret |-> {},
     diag |-> [check |-> reached[Len(reached)], text |-> text,
               expected |-> expected, actual |-> actual]]

\* kernel_error_eq with the message compared by prefix.
kernel_error_eq_prefix(res, k, a, m) ==
    IF res.tag = "Ok"
    THEN Panic(<<"result">>, "An Error was expected, although one was not returned", {}, {res.val})
    ELSE IF res.e.kind # k
    THEN Panic(<<"result", "kind">>, "Kind does not match", {k}, {res.e.kind})
    ELSE IF res.e.audience # a
    THEN Panic(<<"result", "kind", "audience">>, "Audience does not match", {a}, {res.e.audience})
    ELSE IF ~StartsWith(res.e.message, m)
    THEN Panic(<<"result", "kind", "audience", "message">>,
               "The Error Message does not match", {m}, {res.e.message})
    ELSE Pass(<<"result", "kind", "audience", "message">>, {})

\* kernel_error_eq with the audience asserted before the kind.
kernel_error_eq_swapped(res, k, a, m) ==
    IF res.tag = "Ok"
    THEN Panic(<<"result">>, "An Error was expected, although one was not returned", {}, {res.val})
    ELSE IF res.e.audience # a
    THEN Panic(<<"result", "audience">>, "Audience does not match", {a}, {res.e.audience})
    ELSE IF res.e.kind # k
    THEN Panic(<<"result", "audience", "kind">>, "Kind does not match", {k}, {res.e.kind})
    ELSE IF res.e.message # m
    THEN Panic(<<"result", "audience", "kind", "message">>,
               "The Error Message does not match", {m}, {res.e.message})
    ELSE Pass(<<"result", "audience", "kind", "message">>, {})

\* macro_rules! kernel_error_eq
kernel_error_eq(res, k, a, m) ==
    IF res.tag = "Ok"
    THEN Panic(<<"result">>, "An Error was expected, although one was not returned", {}, {res.val})
    ELSE IF res.e.kind # k
    THEN Panic(<<"result", "kind">>, "Kind does not match", {k}, {res.e.kind})
    ELSE IF res.e.audience # a
    THEN Panic(<<"result", "kind", "audience">>, "Audience does not match", {a}, {res.e.audience})
    ELSE IF res.e.message # m
    THEN Panic(<<"result", "kind", "audience", "message">>,
               "The Error Message does not match", {m}, {res.e.message})
    ELSE Pass(<<"result", "kind", "audience", "message">>, {})

\* kernel_error_has_message with the length test off by one.
kernel_error_has_message_long(res, k, a) ==
    IF res.tag = "Ok"
    THEN Panic(<<"result">>, "An Error was expected, although one was not returned", {}, {res.val})
    ELSE IF res.e.kind # k
    THEN Panic(<<"result", "kind">>, "Kind does not match", {k}, {res.e.kind})
    ELSE IF res.e.audience # a
    THEN Panic(<<"result", "kind", "audience">>, "Audience does not match", {a}, {res.e.audience})
    ELSE IF Len(res.e.message) <= 1
    THEN Panic(<<"result", "kind", "audience", "message">>,
               "The error message is empty.  A populated error message is expected", {}, {})
    ELSE Pass(<<"result", "kind", "audience", "message">>, {})

\* macro_rules! kernel_error_has_message
kernel_error_has_message(res, k, a) ==
    IF res.tag = "Ok"
    THEN Panic(<<"result">>, "An Error was expected, although one was not returned", {}, {res.val})
    ELSE IF res.e.kind # k
    THEN Panic(<<"result", "kind">>, "Kind does not match", {k}, {res.e.kind})
    ELSE IF res.e.audience # a
    THEN Panic(<<"result", "kind", "audience">>, "Audience does not match", {a}, {res.e.audience})
    ELSE IF Len(res.e.message) = 0
    THEN Panic(<<"result", "kind", "audience", "message">>,
               "The error message is empty.  A populated error message is expected", {}, {})
    ELSE Pass(<<"result", "kind", "audience", "message">>, {})

\* kernel_error_starts_with with the two format arguments exchanged.
kernel_error_starts_with_exchanged(res, k, a, m) ==
    IF res.tag = "Ok"
    THEN Panic(<<"result">>, "An Error was expected, although one was not retured", {}, {res.val})
    ELSE IF res.e.kind # k
    THEN Panic(<<"result", "kind">>, "Kind does not match", {k}, {res.e.kind})
    ELSE IF res.e.audience # a
    THEN Panic(<<"result", "kind", "audience">>, "Audience does not match", {a}, {res.e.audience})
    ELSE IF ~StartsWith(res.e.message, m)
    THEN Panic(<<"result", "kind", "audience", "message">>,
               "The Error Message does not start with the expected phrase", {res.e.message}, {m})
    ELSE Pass(<<"result", "kind", "audience", "message">>, {})

\* macro_rules! kernel_error_starts_with
kernel_error_starts_with(res, k, a, m) ==
    IF res.tag = "Ok"
    THEN Panic(<<"result">>, "An Error was expected, although one was not retured", {}, {res.val})
    ELSE IF res.e.kind # k
    THEN Panic(<<"result", "kind">>, "Kind does not match", {k}, {res.e.kind})
    ELSE IF res.e.audience # a
    THEN Panic(<<"result", "kind", "audience">>, "Audience does not match", {a}, {res.e.audience})
    ELSE IF ~StartsWith(res.e.message, m)
    THEN Panic(<<"result", "kind", "audience", "message">>,
               "The Error Message does not start with the expected phrase", {m}, {res.e.message})
    ELSE Pass(<<"result", "kind", "audience", "message">>, {})

\* macro_rules! kernel_error_contains
kernel_error_contains(res, k, a, m) ==
    IF res.tag = "Ok"
    THEN Panic(<<"result">>, "An Error was expected, although one was not retured", {}, {res.val})
    ELSE IF res.e.kind # k
    THEN Panic(<<"result", "kind">>, "Kind does not match", {k}, {res.e.kind})
    ELSE IF res.e.audience # a
    THEN Panic(<<"result", "kind", "audience">>, "Audience does not match", {a}, {res.e.audience})
    ELSE IF ~Contains(res.e.message, m)
    THEN Panic(<<"result", "kind", "audience", "message">>,
               "The Error Message does not contains the expected phrase", {m}, {res.e.message})
    ELSE Pass(<<"result", "kind", "audience", "message">>, {})

\* is_ok that hands back a fixed value instead of the payload.
is_ok_default(res) ==
    IF res.tag = "Ok"
    THEN Pass(<<"result">>, {"v0"})
    ELSE Panic(<<"result">>, "An Ok was expected, although an Error was returned", {}, {res.e})

\* macro_rules! is_ok
is_ok(res) ==
    IF res.tag = "Ok"
    THEN Pass(<<"result">>, {res.val})
    ELSE Panic(<<"result">>, "An Ok was expected, although an Error was returned", {}, {res.e})

\* is_error that rebuilds the error and loses its message.
is_error_blank(res) ==
    IF res.tag = "Ok"
    THEN Panic(<<"result">>, "An error was expected, although one was not returned", {}, {})
    ELSE Pass(<<"result">>, {[res.e EXCEPT !.message = <<>>]})

\* macro_rules! is_error
is_error(res) ==
    IF res.tag = "Ok"
    THEN Panic(<<"result">>, "An error was expected, although one was not returned", {}, {})
    ELSE Pass(<<"result">>, {res.e})

\* ------------------------------------------------------------------ state
VARIABLES
    result,            \* $result, the Result the test evaluated
    expected_kind,     \* $expected_kind
    expected_audience, \* $expected_audience
    expected_message,  \* $expected_message
    outcome,           \* per macro: "none" (not invoked), "pass" or "panic"
    diag,              \* per macro: the panic diagnostic
    ret,               \* per macro: the value the macro evaluated to
    reached            \* per macro: the checks it evaluated, in order

vars == <<result, expected_kind, expected_audience, expected_message,
          outcome, diag, ret, reached>>

inputs == <<result, expected_kind, expected_audience, expected_message>>

\* The test has evaluated its arguments; no macro has been invoked yet.
Init ==
    /\ result \in Results
    /\ expected_kind \in Kinds
    /\ expected_audience \in Audiences
    /\ expected_message \in Strings
    /\ outcome = [o \in Ops |-> "none"]
    /\ diag = [o \in Ops |-> NoDiag]
    /\ ret = [o \in Ops |-> {}]
    /\ reached = [o \in Ops |-> <<>>]

\* Record what the invocation of macro op did.
Invoke(op, r) ==
    /\ outcome[op] = "none"
    /\ outcome' = [outcome EXCEPT ![op] = r.outcome]
    /\ diag' = [diag EXCEPT ![op] = r.diag]
    /\ ret' = [ret EXCEPT ![op] = r.ret]
    /\ reached' = [reached EXCEPT ![op] = r.reached]
    /\ UNCHANGED inputs

KernelErrorEq ==
    Invoke("kernel_error_eq",
           kernel_error_eq(result, expected_kind, expected_audience, expected_message))

KernelErrorHasMessage ==
    Invoke("kernel_error_has_message",
           kernel_error_has_message(result, expected_kind, expected_audience))

KernelErrorStartsWith ==
    Invoke("kernel_error_starts_with",
           kernel_error_starts_with(result, expected_kind, expected_audience, expected_message))

KernelErrorContains ==
    Invoke("kernel_error_contains",
           kernel_error_contains(result, expected_kind, expected_audience, expected_message))

IsOk ==
    Invoke("is_ok", is_ok(result))

IsError ==
    Invoke("is_error", is_error(result))

Next ==
    \/ KernelErrorEq
    \/ KernelErrorHasMessage
    \/ KernelErrorStartsWith
    \/ KernelErrorContains
    \/ IsOk
    \/ IsError

Spec == Init /\ [][Next]_vars

\* ----------------------------------------------------------- vocabulary
\* The order in which the error-checking macros evaluate their checks.
CheckOrder == <<"result", "kind", "audience", "message">>

\* The result is Failure(e).
IsFailure == result.tag = "Err"

\* The result is Failure(e) and e.kind, e.audience equal the expected ones.
Classified ==
    /\ IsFailure
    /\ result.e.kind = expected_kind
    /\ result.e.audience = expected_audience

\* The macro has been invoked in this test.
Invoked(op) == outcome[op] # "none"

\* The macro fell through without a diagnostic and without a value.
Silent(op) == outcome[op] = "pass" /\ diag[op] = NoDiag /\ ret[op] = {}

\* The macro halted the test: a diagnostic was raised and no value came back.
Halted(op) == outcome[op] = "panic" /\ diag[op] # NoDiag /\ ret[op] = {}

\* ----------------------------------------------------------------- claims
\* C1: kernel_error_eq passes silently if and only if the result is
\* Failure(e) with e.kind, e.audience and e.message equal to the expected
\* triple; in every other case it halts the test.
C1_ExactMatchIff ==
    Invoked("kernel_error_eq") =>
        IF Classified /\ result.e.message = expected_message
        THEN Silent("kernel_error_eq")
        ELSE Halted("kernel_error_eq")

C1_Witness ==
    /\ Classified
    /\ result.e.message = expected_message
    /\ Len(expected_message) = MaxLen
    /\ outcome["kernel_error_eq"] = "pass"

\* C2: the four error-checking macros evaluate their checks in the order
\* unexpected Success, kind, audience, message; the first check that fails
\* halts the test and is the only one reported, so a kind mismatch never
\* reaches the audience or message comparison, and with kind and audience
\* matching only the message check can be the one reported.
C2_CheckOrder ==
    \A op \in ErrorOps :
        Invoked(op) =>
            /\ \E n \in 1..Len(CheckOrder) : reached[op] = SubSeq(CheckOrder, 1, n)
            /\ outcome[op] = "panic" => diag[op].check = reached[op][Len(reached[op])]
            /\ ~IsFailure =>
                   /\ outcome[op] = "panic"
                   /\ reached[op] = <<"result">>
            /\ (IsFailure /\ result.e.kind # expected_kind) =>
                   /\ outcome[op] = "panic"
                   /\ reached[op] = <<"result", "kind">>
                   /\ diag[op].expected = {expected_kind}
            /\ (IsFailure /\ result.e.kind = expected_kind
                          /\ result.e.audience # expected_audience) =>
                   /\ outcome[op] = "panic"
                   /\ reached[op] = <<"result", "kind", "audience">>
                   /\ diag[op].expected = {expected_audience}
            /\ Classified =>
                   /\ reached[op] = CheckOrder
                   /\ outcome[op] = "panic" => diag[op].check = "message"

C2_Witness ==
    /\ IsFailure
    /\ result.e.kind # expected_kind
    /\ result.e.audience # expected_audience
    /\ result.e.message # expected_message
    /\ \A op \in ErrorOps : diag[op].check = "kind"

\* C3: for a Failure(e) whose kind and audience match, kernel_error_has_message
\* passes if and only if e.message is non-empty, whatever its content; for an
\* empty message it halts the test.
C3_PresenceOnlyIff ==
    (Invoked("kernel_error_has_message") /\ Classified) =>
        IF Len(result.e.message) > 0
        THEN Silent("kernel_error_has_message")
        ELSE Halted("kernel_error_has_message")

C3_Witness ==
    /\ Classified
    /\ result.e.message = <<>>
    /\ outcome["kernel_error_has_message"] = "panic"
    /\ diag["kernel_error_has_message"].check = "message"

\* C4: for a Failure(e) whose kind and audience match, kernel_error_starts_with
\* passes if and only if the expected phrase occurs in e.message at offset 0;
\* an occurrence only at a later offset halts the test.
C4_PrefixIff ==
    (Invoked("kernel_error_starts_with") /\ Classified) =>
        IF Occurs(result.e.message, expected_message, 0)
        THEN Silent("kernel_error_starts_with")
        ELSE Halted("kernel_error_starts_with")

C4_Witness ==
    /\ Classified
    /\ ~Occurs(result.e.message, expected_message, 0)
    /\ \E off \in 1..Len(result.e.message) :
           Occurs(result.e.message, expected_message, off)
    /\ outcome["kernel_error_starts_with"] = "panic"

\* C5: for a Failure(e) whose kind and audience match, kernel_error_contains
\* passes if and only if the expected phrase occurs at some offset within
\* e.message; otherwise it halts the test.
C5_SubstringIff ==
    (Invoked("kernel_error_contains") /\ Classified) =>
        IF \E off \in 0..Len(result.e.message) :
               Occurs(result.e.message, expected_message, off)
        THEN Silent("kernel_error_contains")
        ELSE Halted("kernel_error_contains")

C5_Witness ==
    /\ Classified
    /\ Len(expected_message) > 0
    /\ ~Occurs(result.e.message, expected_message, 0)
    /\ outcome["kernel_error_contains"] = "pass"

\* C6: is_ok evaluates to exactly v for Success(v); for Failure(e) it halts
\* the test with a diagnostic that reports e and yields no value.
C6_IsOkUnwraps ==
    Invoked("is_ok") =>
        IF IsFailure
        THEN /\ Halted("is_ok")
             /\ diag["is_ok"].actual = {result.e}
        ELSE /\ outcome["is_ok"] = "pass"
             /\ ret["is_ok"] = {result.val}
             /\ diag["is_ok"] = NoDiag

C6_Witness ==
    /\ result = Ok("v1")
    /\ outcome["is_ok"] = "pass"

\* C7: is_error evaluates to exactly e, kind, audience and message unchanged,
\* for Failure(e); for Success(v) it halts the test, reporting that an error
\* was expected, and yields no value.
C7_IsErrorUnwraps ==
    Invoked("is_error") =>
        IF IsFailure
        THEN /\ outcome["is_error"] = "pass"
             /\ ret["is_error"] = {result.e}
             /\ diag["is_error"] = NoDiag
        ELSE /\ Halted("is_error")
             /\ diag["is_error"].text = "An error was expected, although one was not returned"

C7_Witness ==
    /\ IsFailure
    /\ Len(result.e.message) = MaxLen
    /\ outcome["is_error"] = "pass"

\* C8 as stated: on every failure path of every macro the diagnostic contains
\* both the expected value and the actual value of what mismatched.
C8_EveryDiagnosticComparesValues ==
    \A op \in Ops :
        outcome[op] = "panic" =>
            /\ diag[op].expected # {}
            /\ diag[op].actual # {}

\* C8 as amended: every failure path halts the test with a diagnostic.  The
\* diagnostic carries both the expected and the actual value on the kind and
\* audience mismatch paths and on the message mismatch paths of
\* kernel_error_eq, kernel_error_starts_with and kernel_error_contains.  On
\* the unexpected-Success path of the four error-checking macros and on the
\* abort path of is_ok it carries the actual value only; on the empty-message
\* path of kernel_error_has_message and on the abort path of is_error it
\* carries no value at all.
C8_DiagnosticValues ==
    \A op \in Ops :
        outcome[op] = "panic" =>
            /\ Halted(op)
            /\ diag[op].check \in {"result", "kind", "audience", "message"}
            /\ diag[op].check = "kind" =>
                   /\ diag[op].expected = {expected_kind}
                   /\ diag[op].actual = {result.e.kind}
            /\ diag[op].check = "audience" =>
                   /\ diag[op].expected = {expected_audience}
                   /\ diag[op].actual = {result.e.audience}
            /\ (diag[op].check = "message" /\ op # "kernel_error_has_message") =>
                   /\ diag[op].expected = {expected_message}
                   /\ diag[op].actual = {result.e.message}
            /\ (diag[op].check = "message" /\ op = "kernel_error_has_message") =>
                   /\ diag[op].expected = {}
                   /\ diag[op].actual = {}
            /\ (diag[op].check = "result" /\ op \in ErrorOps) =>
                   /\ diag[op].expected = {}
                   /\ diag[op].actual = {result.val}
            /\ op = "is_ok" =>
                   /\ diag[op].expected = {}
                   /\ diag[op].actual = {result.e}
            /\ op = "is_error" =>
                   /\ diag[op].expected = {}
                   /\ diag[op].actual = {}

C8_Witness ==
    /\ Classified
    /\ result.e.message = <<>>
    /\ diag["kernel_error_has_message"].check = "message"
    /\ diag["kernel_error_starts_with"].check = "message"
    /\ diag["kernel_error_starts_with"].expected = {expected_message}
    /\ diag["is_ok"].actual = {result.e}

\* C9: on the same arguments the assertions are ordered by strength: where
\* kernel_error_eq passes kernel_error_starts_with passes, and where
\* kernel_error_starts_with passes kernel_error_contains passes.
C9_StrengthOrder ==
    /\ (outcome["kernel_error_eq"] = "pass" /\ Invoked("kernel_error_starts_with"))
           => outcome["kernel_error_starts_with"] = "pass"
    /\ (outcome["kernel_error_starts_with"] = "pass" /\ Invoked("kernel_error_contains"))
           => outcome["kernel_error_contains"] = "pass"

\* The converse of the first implication fails here: the prefix and the
\* substring assertion pass while the exact match halts.
C9_Witness ==
    /\ outcome["kernel_error_eq"] = "panic"
    /\ outcome["kernel_error_starts_with"] = "pass"
    /\ outcome["kernel_error_contains"] = "pass"
    /\ Len(expected_message) > 0

\* The converse of the second implication fails in the states that falsify
\* this predicate: the substring assertion passes while the prefix halts.
C9_ContainsImpliesPrefix ==
    outcome["kernel_error_contains"] = "pass"
        => outcome["kernel_error_starts_with"] # "panic"

\* C10: with an empty expected phrase kernel_error_starts_with and
\* kernel_error_contains pass for every Failure(e) whose kind and audience
\* match, also when e.message is empty; for an empty message they and
\* kernel_error_eq with expected message "" pass where
\* kernel_error_has_message halts.
C10_EmptyPhrase ==
    (Classified /\ expected_message = <<>>) =>
        /\ Invoked("kernel_error_starts_with") => Silent("kernel_error_starts_with")
        /\ Invoked("kernel_error_contains") => Silent("kernel_error_contains")
        /\ result.e.message = <<>> =>
               /\ Invoked("kernel_error_eq") => Silent("kernel_error_eq")
               /\ Invoked("kernel_error_has_message") => Halted("kernel_error_has_message")

C10_Witness ==
    /\ Classified
    /\ expected_message = <<>>
    /\ result.e.message = <<>>
    /\ outcome["kernel_error_eq"] = "pass"
    /\ outcome["kernel_error_starts_with"] = "pass"
    /\ outcome["kernel_error_contains"] = "pass"
    /\ outcome["kernel_error_has_message"] = "panic"

====
